---- MODULE Spec2Model ----
(***************************************************************************)
(* redisdl.py: dump a live redis database to a Python literal and load it  *)
(* back.  The model has three parts: the store (the redis server as the    *)
(* program's calls see it, with other clients writing to it at any time),  *)
(* the dump path (dumps, _reader, _read_key, the five readers) and the     *)
(* load path (loads, _empty, _writer).                                     *)
(***************************************************************************)
EXTENDS Integers, Sequences, FiniteSets, TLC

VARIABLES
  env,        \* what the other clients of the store do in this run
  store,      \* the database: key -> [type, expireat, value]
  now,        \* the clock, in seconds (time.time() and the server's clock)
  watching,   \* keys WATCHed on the pipeline's connection
  dirty,      \* a watched key was touched since WATCH: EXEC will fail
  pretty,     \* dumps(pretty=...)
  rpc,        \* where the dump is: "keys", "type", "watch", "execute", "done", "error"
  keys,       \* the list r.keys() returned
  idx,        \* position of `key` in keys
  i,          \* _reader's attempt index, range(10)
  type,       \* _read_key's local `type`
  dtable,     \* dumps' table
  result,     \* the table dumps returned the repr of, or NoResult
  error,      \* the exception that left dumps
  errkey,     \* the key ConcurrentModificationError names
  attempts,   \* history: calls of _read_key for the current key
  failed,     \* history: of these, how many ended in WatchError or KeyTypeChangedError
  lastexc,    \* history: which of the two ended the last failed one
  skipped,    \* history: the keys _reader found deleted (KeyDeletedError)
  muts,       \* history: writes to the current key since its first type query (saturating)
  lpc,        \* where the load is: "start", "empty", "parse", "loop", "done", "error"
  empty,      \* loads(empty=...)
  s,          \* loads' input: the table the text denotes, if it is a literal
  ekeys,      \* _empty: the keys r.keys() returned that are still to delete
  pos,        \* how many records of the table the loop has been through
  counter,    \* loads' counter
  p,          \* the commands queued in the pipeline p
  lerror,     \* the exception that left loads
  batch,      \* history: records written to p since it was last executed
  flushed,    \* history: for each p.execute() so far, the records it carried
  enqd,       \* history: commands queued so far
  execd,      \* history: commands executed so far
  sent,       \* history: the commands of the last p.execute()
  before      \* history: what the database held when loads was called

dumpvars_but_muts_dirty ==
  <<watching, pretty, rpc, keys, idx, i, type, dtable, skipped, result, error, errkey,
    attempts, failed, lastexc>>
dumpvars == <<dumpvars_but_muts_dirty, dirty, muts>>
loadvars ==
  <<lpc, empty, s, ekeys, pos, counter, p, lerror, batch, flushed, enqd, execd, sent,
    before>>
vars == <<store, now, env, dumpvars, loadvars>>

(***************************************************************************)
(* Bounds of the model.                                                    *)
(***************************************************************************)
NumKeys == 2          \* keys of the database being dumped
HotKeys == 1          \* of these, the keys other clients write to during the dump
MaxTime == 3          \* the clock stops ticking here
MutCap == 10          \* muts saturates here

(***************************************************************************)
(* Program constants.                                                      *)
(***************************************************************************)
MaxAttempts == 10     \* for i in range(10)
BatchSize == 10000    \* counter = (counter + 1) % 10000

None == -1            \* Python's None where an integer may stand (expireat)
StartTime == 1        \* UNIX time is positive

Keys == 1 .. NumKeys
Elems == {"a", "b"}   \* the byte strings in play
\* Python's order on these byte strings
Ord(e) == IF e = "a" THEN 1 ELSE 2

Max(a, b) == IF a > b THEN a ELSE b
Min(a, b) == IF a < b THEN a ELSE b

\* All orders in which the members of S can be listed.
Orderings(S) ==
  {f \in [1 .. Cardinality(S) -> S] : \A x, y \in 1 .. Cardinality(S) : f[x] = f[y] => x = y}


(***************************************************************************)
(* The store.  A key holds [type, expireat, value]; the value's shape      *)
(* follows the type: a byte string, a sequence, a set, a member -> score   *)
(* function, a field -> value function.  "stream" stands for any kind the  *)
(* program has no reader for.                                              *)
(***************************************************************************)
NoKey == [type |-> "none", expireat |-> None, value |-> "nil"]

EmptyFcn == [x \in {} |-> "nil"]

\* A function with one more (or one changed) entry.
Put(f, x, v) == [y \in DOMAIN f \cup {x} |-> IF y = x THEN v ELSE f[y]]

Fresh(t, v) == [type |-> t, expireat |-> None, value |-> v]

\* What one command of a client does to the value under its key at time t.  A
\* command sent to a key of another kind is refused (WRONGTYPE) and changes nothing.
ApplyCmd(sv, c, t) ==
  CASE c.cmd = "delete" -> NoKey
    [] c.cmd = "set" -> Fresh("string", c.val)
    [] c.cmd = "rpush" ->
         IF sv.type = "none" THEN Fresh("list", <<c.val>>)
         ELSE IF sv.type = "list" THEN [sv EXCEPT !.value = Append(@, c.val)]
         ELSE sv
    [] c.cmd = "sadd" ->
         IF sv.type = "none" THEN Fresh("set", {c.val})
         ELSE IF sv.type = "set" THEN [sv EXCEPT !.value = @ \cup {c.val}]
         ELSE sv
    [] c.cmd = "zadd" ->
         IF sv.type = "none" THEN Fresh("zset", Put(EmptyFcn, c.val[1], c.val[2]))
         ELSE IF sv.type = "zset" THEN [sv EXCEPT !.value = Put(@, c.val[1], c.val[2])]
         ELSE sv
    [] c.cmd = "hmset" ->
         IF sv.type = "none" THEN Fresh("hash", c.val)
         ELSE IF sv.type = "hash"
           THEN [sv EXCEPT !.value =
                   [f \in DOMAIN @ \cup DOMAIN c.val |->
                      IF f \in DOMAIN c.val THEN c.val[f] ELSE @[f]]]
         ELSE sv
    [] c.cmd = "expireat" ->
         IF sv.type = "none" THEN sv
         ELSE IF c.val <= t THEN NoKey
         ELSE [sv EXCEPT !.expireat = c.val]
    [] c.cmd = "xadd" ->
         IF sv.type = "none" THEN Fresh("stream", "x") ELSE sv

\* Whether the command counts as a modification of the key for WATCH.
Touches(sv, c, t) ==
  \/ ApplyCmd(sv, c, t) # sv
  \/ c.cmd = "set"
  \/ c.cmd = "hmset" /\ sv.type \in {"none", "hash"}

\* TTL key: -2 for no key, -1 for a key without expiry.
Ttl(sv, t) ==
  IF sv.type = "none" THEN -2
  ELSE IF sv.expireat = None THEN -1
  ELSE sv.expireat - t

Cmd(c, k, v) == [cmd |-> c, key |-> k, val |-> v]


(***************************************************************************)
(* The readers (StringReader ... HashReader) and the registry.             *)
(***************************************************************************)
readers ==
  [string |-> "StringReader", list |-> "ListReader", set |-> "SetReader",
   zset |-> "ZsetReader", hash |-> "HashReader"]

\* (mutant) readers.get(type, StringReader)
ReadersGetDefault(t) == IF t \in DOMAIN readers THEN readers[t] ELSE "StringReader"

\* readers.get(type)
ReadersGet(t) == IF t \in DOMAIN readers THEN readers[t] ELSE "None"

\* sorted(S) for a set of byte strings
Sorted(S) ==
  CHOOSE f \in Orderings(S) : \A x, y \in 1 .. Cardinality(S) : x < y => Ord(f[x]) < Ord(f[y])

\* ZRANGE key 0 -1 WITHSCORES: (member, score) pairs by ascending score, then member
ZRange(z) ==
  LET f == CHOOSE g \in Orderings(DOMAIN z) :
             \A x, y \in 1 .. Cardinality(DOMAIN z) :
               x < y => \/ z[g[x]] < z[g[y]]
                        \/ z[g[x]] = z[g[y]] /\ Ord(g[x]) < Ord(g[y])
  IN [x \in 1 .. Cardinality(DOMAIN z) |-> <<f[x], z[f[x]]>>]

\* The reply, inside EXEC, to the command the reader queued (send_command), for a
\* key that holds sv when EXEC runs.  A missing key reads as nil or empty; a key
\* of another kind gets the server's WRONGTYPE error reply in its slot.
SendCommand(reader, sv) ==
  CASE reader = "StringReader" ->
         IF sv.type = "string" THEN sv.value
         ELSE IF sv.type = "none" THEN "nil" ELSE "WRONGTYPE"
    [] reader = "ListReader" ->
         IF sv.type = "list" THEN sv.value
         ELSE IF sv.type = "none" THEN <<>> ELSE <<"WRONGTYPE">>
    [] reader = "SetReader" ->
         IF sv.type = "set" THEN sv.value
         ELSE IF sv.type = "none" THEN {} ELSE {"WRONGTYPE"}
    [] reader = "ZsetReader" ->
         IF sv.type = "zset" THEN ZRange(sv.value)
         ELSE IF sv.type = "none" THEN <<>> ELSE <<"WRONGTYPE">>
    [] reader = "HashReader" ->
         IF sv.type = "hash" THEN sv.value
         ELSE IF sv.type = "none" THEN EmptyFcn ELSE [e \in {"WRONGTYPE"} |-> "WRONGTYPE"]

\* handle_response: the values it can return.  list(response) lists a set in an
\* order of the interpreter's choosing; pretty sorts it.
HandleResponse(reader, response, pty) ==
  IF reader = "SetReader"
    THEN IF pty THEN {Sorted(response)} ELSE Orderings(response)
    ELSE {response}


(***************************************************************************)
(* The dump path: dumps, _reader, _read_key.  One action per round trip to *)
(* the server; what the program does between two round trips belongs to    *)
(* the action of the earlier one.                                          *)
(***************************************************************************)
NoResult == [k \in {0} |-> NoKey]
NoInput == [wf |-> FALSE, table |-> <<>>]
EmptyTable == [k \in {} |-> NoKey]

key == keys[idx]

\* (mutant) range(9)
MoreAttemptsNine(n) == n + 1 < MaxAttempts - 1

\* for i in range(10): is there another round after round n
MoreAttempts(n) == n + 1 < MaxAttempts

\* _reader is through with the key (handled = True; break): it moves on to the
\* next key of the listing, or the listing is exhausted and dumps returns
\* repr(table).  The history of a key is dropped when the next key is taken up.
NextKey(tbl, skip, calls) ==
  /\ dtable' = tbl
  /\ skipped' = skipped \cup skip
  /\ UNCHANGED <<error, errkey, keys, pretty>>
  /\ IF idx < Len(keys)
       THEN /\ idx' = idx + 1 /\ rpc' = "type" /\ result' = result
            /\ i' = 0 /\ type' = "none"
            /\ attempts' = 0 /\ failed' = 0 /\ muts' = 0 /\ lastexc' = "none"
       ELSE /\ idx' = idx /\ rpc' = "done" /\ result' = tbl
            /\ attempts' = calls
            /\ UNCHANGED <<i, type, failed, muts, lastexc>>

\* An exception leaves _reader and dumps.
Raise(exc, k) ==
  /\ rpc' = "error"
  /\ error' = exc
  /\ errkey' = k
  /\ UNCHANGED <<keys, idx, i, type, dtable, skipped, result, pretty>>

\* (mutant) out of retries: the key is left out and the dump goes on
GiveUpSilently(exc) == NextKey(dtable, {}, attempts)

\* if not handled: raise ConcurrentModificationError
GiveUp(exc) ==
  /\ failed' = failed + 1
  /\ lastexc' = exc
  /\ UNCHANGED <<attempts, muts>>
  /\ Raise("ConcurrentModificationError", key)

\* (mutant) the loop goes round for as long as the reads fail
RetryAgain(exc) ==
  /\ i' = i
  /\ rpc' = "type"
  /\ failed' = failed + 1
  /\ lastexc' = exc
  /\ UNCHANGED <<keys, idx, type, dtable, skipped, result, error, errkey, pretty,
                 attempts, muts>>

\* redis.WatchError or KeyTypeChangedError: pass, and the loop goes round; after
\* the last round handled is still False.
Retry(exc) ==
  IF MoreAttempts(i)
    THEN /\ i' = i + 1
         /\ rpc' = "type"
         /\ failed' = failed + 1
         /\ lastexc' = exc
         /\ UNCHANGED <<keys, idx, type, dtable, skipped, result, error, errkey, pretty,
                        attempts, muts>>
    ELSE GiveUp(exc)

\* (mutant) the listing also has the keys that do not exist yet
ListKeysAll ==
  /\ rpc = "keys"
  /\ \E l \in Orderings(DOMAIN store) :
       /\ keys' = l
       /\ rpc' = "type" /\ result' = result
  /\ UNCHANGED <<store, now, env, loadvars, watching, dirty, pretty, idx, i, type, dtable, skipped,
                 error, errkey, attempts, failed, muts, lastexc>>

\* r.keys(): the keys present now, in the server's order.
ListKeys ==
  /\ rpc = "keys"
  /\ \E l \in Orderings({k \in DOMAIN store : store[k].type # "none"}) :
       /\ keys' = l
       /\ IF l = <<>>
            THEN rpc' = "done" /\ result' = dtable
            ELSE rpc' = "type" /\ result' = result
  /\ UNCHANGED <<store, now, env, loadvars, watching, dirty, pretty, idx, i, type, dtable, skipped,
                 error, errkey, attempts, failed, muts, lastexc>>

\* (mutant) KeyDeletedError handled like the other two: pass
KeyDeletedPass == Retry("KeyDeletedError")

\* except KeyDeletedError: do not dump the key; handled = True; break
KeyDeleted == NextKey(dtable, {key}, attempts + 1)

\* _read_key up to the pipeline: r.type(key), KeyDeletedError, readers.get.
TypeQuery ==
  /\ rpc = "type"
  /\ LET t == store[key].type IN
       IF t = "none"
         THEN KeyDeleted
       ELSE IF ReadersGet(t) = "None"
         THEN /\ Raise("UnknownTypeError", key)
              /\ attempts' = attempts + 1
              /\ UNCHANGED <<failed, muts, lastexc>>
       ELSE /\ type' = t
            /\ rpc' = "watch"
            /\ attempts' = attempts + 1
            /\ UNCHANGED <<pretty, keys, idx, i, dtable, skipped, result,
                           error, errkey, failed, muts, lastexc>>
  /\ UNCHANGED <<store, now, env, loadvars, watching, dirty>>

\* (mutant) the reader's command before the group is a write: it deletes the key
WatchDeleting ==
  /\ rpc = "watch"
  /\ watching' = {key}
  /\ dirty' = FALSE
  /\ rpc' = "execute"
  /\ store' = [store EXCEPT ![key] = NoKey]
  /\ UNCHANGED <<now, env, loadvars, pretty, keys, idx, i, type, dtable, skipped, result,
                 error, errkey, attempts, failed, muts, lastexc>>

\* p = r.pipeline(); p.watch(key): WATCH goes to the server at once.
Watch ==
  /\ rpc = "watch"
  /\ watching' = {key}
  /\ dirty' = FALSE
  /\ rpc' = "execute"
  /\ UNCHANGED <<store, now, env, loadvars, pretty, keys, idx, i, type, dtable, skipped, result,
                 error, errkey, attempts, failed, muts, lastexc>>

\* (mutant) the kind read in the group is not checked
TypeNeverChanged(actual_type, t) == FALSE

\* (mutant) only a key that is gone counts as changed
TypeChangedIfGone(actual_type, t) == actual_type = "none"

\* (mutant) every attempt is taken for a changed kind
TypeAlwaysChanged(actual_type, t) == TRUE

\* if actual_type != type
TypeChanged(actual_type, t) == actual_type # t

\* (mutant) the time to live is kept as it was read
ExpireAtRelative(ttl, t) == IF ttl >= 0 THEN ttl ELSE None

\* int(time.time() + ttl) if ttl >= 0 else None
ExpireAt(ttl, t) == IF ttl >= 0 THEN t + ttl ELSE None

\* p.multi(); p.type(key); p.ttl(key); reader.send_command(p, key); p.execute(),
\* then the rest of _read_key, the yield, and dumps' table[key] = ...
\* EXEC ends the WATCH whether it runs the group or not.
Execute ==
  /\ rpc = "execute"
  /\ watching' = {}
  /\ dirty' = FALSE
  /\ IF dirty
       THEN Retry("WatchError")
       ELSE LET reader == ReadersGet(type)
                results == <<store[key].type, Ttl(store[key], now),
                             SendCommand(reader, store[key])>>
            IN IF TypeChanged(results[1], type)
                 THEN Retry("KeyTypeChangedError")
                 ELSE \E value \in HandleResponse(reader, results[3], pretty) :
                        NextKey(Put(dtable, key,
                                    [type |-> type,
                                     expireat |-> ExpireAt(results[2], now),
                                     value |-> value]),
                                {}, attempts)
  /\ UNCHANGED <<store, now, env, loadvars>>

(***************************************************************************)
(* The other clients of the store, and time.  env is what they do in this  *)
(* run: the commands they send (at any moment, any number of times), the   *)
(* keys they send them to, whether time passes, and whether muts is kept.  *)
(***************************************************************************)
MaxLen == 1           \* other clients stop pushing to a list of this length
TtlSecs == 1          \* the time to live other clients give a key

Op(c, v) == [cmd |-> c, val |-> v]

KindChurn ==
  [cmds |-> {Op("delete", "nil"), Op("set", "a"), Op("rpush", "a"), Op("xadd", "x")},
   clock |-> FALSE, count |-> FALSE, hot |-> {}]

ContainerChurn ==
  [cmds |-> {Op("delete", "nil"), Op("sadd", "a"), Op("zadd", <<"a", 1>>),
             Op("hmset", [f \in {"a"} |-> "b"])},
   clock |-> FALSE, count |-> FALSE, hot |-> {}]

SetChurn ==
  [cmds |-> {Op("delete", "nil"), Op("sadd", "a"), Op("sadd", "b")},
   clock |-> FALSE, count |-> FALSE, hot |-> {}]

StringChurn ==
  [cmds |-> {Op("delete", "nil"), Op("set", "a"), Op("set", "b")},
   clock |-> FALSE, count |-> FALSE, hot |-> {}]

ExpiryChurn ==
  [cmds |-> {Op("set", "a"), Op("expireat", TtlSecs)},
   clock |-> TRUE, count |-> FALSE, hot |-> {}]

CountedChurn ==
  [cmds |-> {Op("delete", "nil"), Op("set", "a"), Op("rpush", "a"), Op("expireat", TtlSecs)},
   clock |-> TRUE, count |-> TRUE, hot |-> {}]

\* The command a client sends for o: EXPIREAT is given the time ttl seconds from now.
ClientCmd(o, k, t) == Cmd(o.cmd, k, IF o.cmd = "expireat" THEN t + o.val ELSE o.val)

InBounds(sv) == sv.type = "list" => Len(sv.value) <= MaxLen

\* The dump has asked for k's kind and has not finished with k.
InWindow(k) == rpc \in {"type", "watch", "execute"} /\ attempts > 0 /\ k = key

Count(n) == IF env.count THEN Min(n + 1, MutCap) ELSE n

\* Another client's command c on key k.
Client(k, c) ==
  /\ Touches(store[k], c, now)
  /\ InBounds(ApplyCmd(store[k], c, now))
  /\ store' = [store EXCEPT ![k] = ApplyCmd(@, c, now)]
  /\ dirty' = (dirty \/ k \in watching)
  /\ muts' = IF InWindow(k) THEN Count(muts) ELSE muts
  /\ UNCHANGED <<now, env, loadvars, dumpvars_but_muts_dirty>>

Write == \E k \in env.hot : \E o \in env.cmds : Client(k, ClientCmd(o, k, now))

\* A second passes; keys past their expiry are gone.  Whether the server counts
\* an expiry as a modification of a watched key depends on its version.
Tick ==
  /\ env.clock
  /\ now < MaxTime
  /\ now' = now + 1
  /\ LET expired == {k \in DOMAIN store :
                       store[k].expireat # None /\ store[k].expireat <= now + 1}
     IN /\ store' = [k \in DOMAIN store |-> IF k \in expired THEN NoKey ELSE store[k]]
        /\ \E touch \in BOOLEAN : dirty' = (dirty \/ (touch /\ expired \cap watching # {}))
        /\ muts' = IF \E k \in expired : InWindow(k) THEN Count(muts) ELSE muts
  /\ UNCHANGED <<env, loadvars, dumpvars_but_muts_dirty>>

(***************************************************************************)
(* The dump of a live database.                                            *)
(***************************************************************************)
\* No load is running.
LoadIdle ==
  /\ lpc = "idle" /\ empty = FALSE /\ s = NoInput /\ ekeys = <<>> /\ pos = 0
  /\ counter = 0 /\ p = <<>> /\ lerror = "none"
  /\ batch = 0 /\ flushed = <<>> /\ enqd = 0 /\ execd = 0 /\ sent = <<>>
  /\ before = <<>>

\* The database holds a string under every key the other clients leave alone.
DumpStart(e) ==
  /\ \E h \in SUBSET Keys :
       /\ Cardinality(h) = HotKeys
       /\ env = [e EXCEPT !.hot = h]
       /\ store = [k \in Keys |-> IF k \in h THEN NoKey ELSE Fresh("string", "a")]
  /\ now = StartTime
  /\ watching = {}
  /\ dirty = FALSE
  /\ rpc = "keys"
  /\ keys = <<>>
  /\ idx = 1
  /\ i = 0
  /\ type = "none"
  /\ dtable = EmptyTable
  /\ result = NoResult
  /\ error = "none"
  /\ errkey = 0
  /\ attempts = 0
  /\ failed = 0
  /\ lastexc = "none"
  /\ skipped = {}
  /\ muts = 0
  /\ LoadIdle

Init ==
  \/ DumpStart(KindChurn) /\ pretty = FALSE
  \/ DumpStart(ContainerChurn) /\ pretty = FALSE
  \/ DumpStart(SetChurn) /\ pretty \in BOOLEAN
  \/ DumpStart(StringChurn) /\ pretty = FALSE
  \/ DumpStart(ExpiryChurn) /\ pretty = FALSE

Next == ListKeys \/ TypeQuery \/ Watch \/ Execute \/ Write \/ Tick

Spec == Init /\ [][Next]_vars

\* The same dump, with the writes to the key being read counted.
InitCounted == DumpStart(CountedChurn) /\ pretty = FALSE

SpecCounted == InitCounted /\ [][Next]_vars

\* The dump when every call to the server returns: a step of _reader that can be
\* taken is taken in the end.  Nothing is assumed of the other clients.
SpecLive == Init /\ [][Next]_vars /\ WF_vars(ListKeys \/ TypeQuery \/ Watch \/ Execute)


(***************************************************************************)
(* The load path: loads, _empty, _writer.  The input text is given as the  *)
(* table it denotes; a record of the table is [key, type, expireat, value] *)
(* and the records stand in the order in which the dict is iterated.       *)
(***************************************************************************)
Item(k, t, e, v) == [key |-> k, type |-> t, expireat |-> e, value |-> v]

\* table = ast.literal_eval(s)
table == s.table

\* (mutant) the elements of a list are pushed last first
KindWritesBackwards(k, t, v) ==
  CASE t = "string" -> <<Cmd("set", k, v)>>
    [] t = "list" -> [j \in 1 .. Len(v) |-> Cmd("rpush", k, v[Len(v) + 1 - j])]
    [] t = "set" -> [j \in 1 .. Len(v) |-> Cmd("sadd", k, v[j])]
    [] t = "zset" -> [j \in 1 .. Len(v) |-> Cmd("zadd", k, v[j])]
    [] t = "hash" -> <<Cmd("hmset", k, v)>>
    [] OTHER -> <<>>

\* the elif chain of _writer: the commands for a value of each kind
KindWrites(k, t, v) ==
  CASE t = "string" -> <<Cmd("set", k, v)>>
    [] t = "list" -> [j \in 1 .. Len(v) |-> Cmd("rpush", k, v[j])]
    [] t = "set" -> [j \in 1 .. Len(v) |-> Cmd("sadd", k, v[j])]
    [] t = "zset" -> [j \in 1 .. Len(v) |-> Cmd("zadd", k, v[j])]
    [] t = "hash" -> <<Cmd("hmset", k, v)>>
    [] OTHER -> <<>>

\* (mutant) a record of any kind is written
KnownTypeAny(t) == TRUE

\* else: raise UnknownTypeError
KnownType(t) == t \in {"string", "list", "set", "zset", "hash"}

\* if expireat:
Truthy(x) == x # None /\ x # 0

\* (mutant) the key is not deleted first
WriterNoDelete(it) ==
  KindWrites(it.key, it.type, it.value)
    \o (IF Truthy(it.expireat) THEN <<Cmd("expireat", it.key, it.expireat)>> ELSE <<>>)

\* _writer for a record of a known kind: the commands it queues on the pipeline
Writer(it) ==
  <<Cmd("delete", it.key, "nil")>>
    \o KindWrites(it.key, it.type, it.value)
    \o (IF Truthy(it.expireat) THEN <<Cmd("expireat", it.key, it.expireat)>> ELSE <<>>)

\* The server runs the commands of a pipeline one after the other: those up to
\* mid are run (a database of as many keys comes out) before those after mid.
RECURSIVE Run(_, _, _, _, _)
Run(db, cmds, lo, hi, t) ==
  IF lo > hi THEN db
  ELSE IF lo = hi THEN [db EXCEPT ![cmds[lo].key] = ApplyCmd(@, cmds[lo], t)]
  ELSE LET mid == (lo + hi) \div 2
           half == Run(db, cmds, lo, mid, t)
       IN IF Len(half) = Len(db) THEN Run(half, cmds, mid + 1, hi, t) ELSE db

\* p.execute() on a pipeline without transaction.  The keys are 1 .. n, so the
\* database is handled as the tuple it is.
PipelineExecute(db, cmds, t) == Run(db \o <<>>, cmds, 1, Len(cmds), t)

\* (mutant) the database is emptied whether empty is set or not
LoadBeginAlways ==
  /\ lpc = "start"
  /\ \E l \in Orderings({k \in DOMAIN store : store[k].type # "none"}) :
       /\ ekeys' = l
       /\ lpc' = IF l = <<>> THEN "parse" ELSE "empty"
  /\ UNCHANGED <<store, now, env, dumpvars, empty, s, pos, counter, p, lerror, batch,
                 flushed, enqd, execd, sent, before>>

\* loads up to its first round trip: if empty, _empty's r.keys()
LoadBegin ==
  /\ lpc = "start"
  /\ IF empty
       THEN \E l \in Orderings({k \in DOMAIN store : store[k].type # "none"}) :
              /\ ekeys' = l
              /\ lpc' = IF l = <<>> THEN "parse" ELSE "empty"
       ELSE lpc' = "parse" /\ ekeys' = ekeys
  /\ UNCHANGED <<store, now, env, dumpvars, empty, s, pos, counter, p, lerror, batch,
                 flushed, enqd, execd, sent, before>>

\* (mutant) _empty goes through the listing and deletes nothing
EmptyDeleteSkip ==
  /\ lpc = "empty"
  /\ ekeys' = Tail(ekeys)
  /\ lpc' = IF Tail(ekeys) = <<>> THEN "parse" ELSE "empty"
  /\ UNCHANGED <<store, now, env, dumpvars, empty, s, pos, counter, p, lerror, batch,
                 flushed, enqd, execd, sent, before>>

\* _empty: r.delete(key) for the next key of the listing
EmptyDelete ==
  /\ lpc = "empty"
  /\ store' = [store EXCEPT ![Head(ekeys)] = NoKey]
  /\ ekeys' = Tail(ekeys)
  /\ lpc' = IF Tail(ekeys) = <<>> THEN "parse" ELSE "empty"
  /\ UNCHANGED <<now, env, dumpvars, empty, s, pos, counter, p, lerror, batch,
                 flushed, enqd, execd, sent, before>>

\* table = ast.literal_eval(s); counter = 0
Parse ==
  /\ lpc = "parse"
  /\ IF s.wf
       THEN lpc' = "loop" /\ lerror' = lerror
       ELSE lpc' = "error" /\ lerror' = "ValueError"
  /\ counter' = 0
  /\ UNCHANGED <<store, now, env, dumpvars, empty, s, ekeys, pos, p, batch,
                 flushed, enqd, execd, sent, before>>

\* (mutant) the counter wraps one record late
CounterAfterLate(c, n) == (c + n) % (BatchSize + 1)

\* counter = (counter + 1) % 10000, n times over
CounterAfter(c, n) == (c + n) % BatchSize

\* The rounds of the loop from the counter at c up to the next p.execute(), the
\* table having m records left: up to the first round that leaves the counter 0.
Rounds(c, m) ==
  IF \E n \in 1 .. m : CounterAfter(c, n) = 0
    THEN CHOOSE n \in 1 .. m :
           CounterAfter(c, n) = 0 /\ \A n2 \in 1 .. n - 1 : CounterAfter(c, n2) # 0
    ELSE m

\* What _writer queues for the records lo .. hi of the table, in their order.
RECURSIVE WriterAll(_, _)
WriterAll(lo, hi) ==
  IF lo > hi THEN <<>>
  ELSE IF lo = hi THEN Writer(table[lo])
  ELSE WriterAll(lo, (lo + hi) \div 2) \o WriterAll((lo + hi) \div 2 + 1, hi)

\* (mutant) no flush after the loop
FinalFlushNever(c) == FALSE

\* if counter:
FinalFlush(c) == c # 0

\* loads' loop from one p.execute() to the next: a new pipeline if counter is 0,
\* then for each record _writer and the counter, up to the record that brings
\* the counter back to 0, and p.execute(); or up to the last record.  A record of
\* unknown kind ends the load in _writer, its delete queued, nothing sent.
LoadBatch ==
  /\ lpc = "loop"
  /\ pos < Len(table)
  /\ LET n == Rounds(counter, Len(table) - pos)
         q0 == IF counter = 0 THEN <<>> ELSE p
         unknown == {j \in pos + 1 .. pos + n : ~KnownType(table[j].type)}
     IN IF unknown # {}
          THEN LET u == CHOOSE j \in unknown : \A j2 \in unknown : j <= j2
                   q == q0 \o WriterAll(pos + 1, u - 1)
               IN /\ p' = Append(q, Cmd("delete", table[u].key, "nil"))
                  /\ pos' = u - 1
                  /\ counter' = CounterAfter(counter, u - 1 - pos)
                  /\ batch' = batch + (u - 1 - pos)
                  /\ enqd' = enqd + Len(q) - Len(q0) + 1
                  /\ lpc' = "error"
                  /\ lerror' = "UnknownTypeError"
                  /\ UNCHANGED <<store, flushed, execd, sent>>
          ELSE LET q == q0 \o WriterAll(pos + 1, pos + n)
                   c == CounterAfter(counter, n)
               IN /\ pos' = pos + n
                  /\ counter' = c
                  /\ enqd' = enqd + Len(q) - Len(q0)
                  /\ UNCHANGED <<lpc, lerror>>
                  /\ IF c = 0
                       THEN /\ store' = PipelineExecute(store, q, now)
                            /\ sent' = q
                            /\ p' = <<>>
                            /\ flushed' = Append(flushed, batch + n)
                            /\ batch' = 0
                            /\ execd' = execd + Len(q)
                       ELSE /\ p' = q
                            /\ batch' = batch + n
                            /\ UNCHANGED <<store, flushed, execd, sent>>
  /\ UNCHANGED <<now, env, dumpvars, empty, s, ekeys, before>>

\* After the loop: if counter: p.execute()
Finish ==
  /\ lpc = "loop"
  /\ pos = Len(table)
  /\ lpc' = "done"
  /\ IF FinalFlush(counter)
       THEN /\ store' = PipelineExecute(store, p, now)
            /\ sent' = p
            /\ p' = <<>>
            /\ flushed' = Append(flushed, batch)
            /\ batch' = 0
            /\ execd' = execd + Len(p)
       ELSE UNCHANGED <<store, p, flushed, batch, execd, sent>>
  /\ UNCHANGED <<now, env, dumpvars, empty, s, ekeys, pos, counter, lerror, enqd, before>>

(***************************************************************************)
(* The load of a table into a database no one else writes to.              *)
(***************************************************************************)
FarTime == StartTime + MaxTime + 1     \* a time the clock does not reach

\* What a record of a small table can be (the kind, the value, the expiry).
Payloads ==
  {<<"string", "a", None>>, <<"string", "b", FarTime>>, <<"list", <<"a", "b", "a">>, None>>,
   <<"set", <<"b", "a">>, None>>, <<"zset", <<<<"b", 1>>, <<"a", 2>>>>, FarTime>>,
   <<"hash", [f \in {"a", "b"} |-> "a"], None>>, <<"stream", "x", None>>}

\* The tables with keys among K.
TablesOver(K) ==
  UNION {{[j \in 1 .. Cardinality(ks) |-> Item(o[j], pl[j][1], pl[j][3], pl[j][2])] :
            o \in Orderings(ks), pl \in [1 .. Cardinality(ks) -> Payloads]} :
         ks \in SUBSET K}

\* A table of n strings.
BigTable(n) == [j \in 1 .. n |-> Item(j, "string", None, "a")]

\* A table of n strings and a record of a kind _writer does not know.
BadTail(n) == BigTable(n) \o <<Item(n + 1, "stream", None, "x")>>

\* A table of one list of n elements.
LongList(n) == <<Item(1, "list", None, [j \in 1 .. n |-> "a"])>>

\* What the destination can hold under a key before the load.
Seeds ==
  {NoKey,
   [type |-> "list", expireat |-> FarTime + 1, value |-> <<"b">>],
   [type |-> "hash", expireat |-> None, value |-> [f \in {"c"} |-> "a"]]}

Quiet == [cmds |-> {}, clock |-> FALSE, count |-> FALSE, hot |-> {}]

\* No dump is running.
DumpIdle ==
  /\ watching = {} /\ dirty = FALSE /\ pretty = FALSE /\ rpc = "idle" /\ keys = <<>>
  /\ idx = 1 /\ i = 0 /\ type = "none" /\ dtable = EmptyTable /\ skipped = {}
  /\ result = NoResult /\ error = "none" /\ errkey = 0
  /\ attempts = 0 /\ failed = 0 /\ lastexc = "none" /\ muts = 0

LoadStart ==
  /\ lpc = "start" /\ ekeys = <<>> /\ pos = 0 /\ counter = 0 /\ p = <<>>
  /\ lerror = "none" /\ batch = 0 /\ flushed = <<>> /\ enqd = 0 /\ execd = 0 /\ sent = <<>>
  /\ now = StartTime /\ env = Quiet
  /\ DumpIdle

InitLoad ==
  /\ LoadStart
  /\ \/ /\ s \in {[wf |-> TRUE, table |-> t] : t \in TablesOver(Keys)} \cup {NoInput}
        /\ store \in [Keys -> Seeds]
        /\ empty \in BOOLEAN
     \/ /\ \E n \in {BatchSize, BatchSize + 1} :
             /\ s = [wf |-> TRUE, table |-> BigTable(n)]
             /\ store = [k \in 1 .. n |-> NoKey]
        /\ empty = FALSE
     \/ /\ s = [wf |-> TRUE, table |-> LongList(BatchSize)]
        /\ store = [k \in Keys |-> NoKey]
        /\ empty = FALSE
     \/ /\ s = [wf |-> TRUE, table |-> BadTail(BatchSize + 1)]
        /\ store = [k \in 1 .. BatchSize + 2 |-> NoKey]
        /\ empty = FALSE
  /\ before = store

NextLoad == LoadBegin \/ EmptyDelete \/ Parse \/ LoadBatch \/ Finish

SpecLoad == InitLoad /\ [][NextLoad]_vars

(***************************************************************************)
(* A load, a dump of the database loaded, and a load of the text dumped.   *)
(* The text is the table with every scalar in it as Python writes it: a    *)
(* quoted string [str], a number [num], or a bare name [name].             *)
(***************************************************************************)
Inf == 1000           \* stands for the score float('inf')

\* A scalar of the text.  A key, which the model numbers, is the string "key" n.
Atom(tok, str, num) == [tok |-> tok, str |-> str, num |-> num]

\* repr of a byte string
ReprStr(x) == Atom("str", x, 0)

\* repr of a key
ReprKey(k) == Atom("str", "key", k)

\* repr of a float (a score): digits, or inf
ReprFloat(x) == IF x = Inf THEN Atom("name", "inf", 0) ELSE Atom("num", "", x)

\* repr of expireat: digits, or None
ReprInt(x) == IF x = None THEN Atom("name", "None", 0) ELSE Atom("num", "", x)

\* repr of a value as the reader of its kind returns it
ReprValue(t, v) ==
  CASE t = "string" -> ReprStr(v)
    [] t \in {"list", "set"} -> [j \in 1 .. Len(v) |-> ReprStr(v[j])]
    [] t = "zset" -> [j \in 1 .. Len(v) |-> <<ReprStr(v[j][1]), ReprFloat(v[j][2])>>]
    [] t = "hash" -> [f \in {ReprStr(x) : x \in DOMAIN v} |-> ReprStr(v[f.str])]

\* repr(table)
Repr(tbl) ==
  [k \in {ReprKey(x) : x \in DOMAIN tbl} |->
     [type |-> ReprStr(tbl[k.num].type),
      expireat |-> ReprInt(tbl[k.num].expireat),
      value |-> ReprValue(tbl[k.num].type, tbl[k.num].value)]]

\* The scalars of a value's text.
ValueAtoms(t, v) ==
  CASE t = "string" -> {v}
    [] t \in {"list", "set"} -> {v[j] : j \in 1 .. Len(v)}
    [] t = "zset" -> UNION {{v[j][1], v[j][2]} : j \in 1 .. Len(v)}
    [] t = "hash" -> DOMAIN v \cup {v[f] : f \in DOMAIN v}

Atoms(text) ==
  DOMAIN text \cup
  UNION {{text[k].type, text[k].expireat} \cup ValueAtoms(text[k].type.str, text[k].value) :
           k \in DOMAIN text}

\* ast.literal_eval takes strings, numbers and the names None, True and False;
\* any other name is a ValueError
Literal(a) == a.tok = "name" => a.str \in {"None", "True", "False"}

EvalAtom(a) ==
  CASE a.tok = "str" -> IF a.str = "key" THEN a.num ELSE a.str
    [] a.tok = "num" -> a.num
    [] a.tok = "name" -> IF a.str = "inf" THEN Inf ELSE None

EvalValue(t, v) ==
  CASE t = "string" -> EvalAtom(v)
    [] t \in {"list", "set"} -> [j \in 1 .. Len(v) |-> EvalAtom(v[j])]
    [] t = "zset" -> [j \in 1 .. Len(v) |-> <<EvalAtom(v[j][1]), EvalAtom(v[j][2])>>]
    [] t = "hash" -> [f \in {EvalAtom(x) : x \in DOMAIN v} |-> EvalAtom(v[ReprStr(f)])]

\* ast.literal_eval(text): the dict, if every scalar of the text is a literal
LiteralEval(text) ==
  IF \A a \in Atoms(text) : Literal(a)
    THEN [wf |-> TRUE,
          dict |-> [k \in {EvalAtom(x) : x \in DOMAIN text} |->
                      [type |-> EvalAtom(text[ReprKey(k)].type),
                       expireat |-> EvalAtom(text[ReprKey(k)].expireat),
                       value |-> EvalValue(text[ReprKey(k)].type.str,
                                           text[ReprKey(k)].value)]]]
    ELSE [wf |-> FALSE, dict |-> EmptyTable]

\* dump is called once the load is through: the dump's pretty is chosen
StartDump ==
  /\ lpc = "done"
  /\ rpc = "idle"
  /\ rpc' = "keys"
  /\ pretty' \in BOOLEAN
  /\ UNCHANGED <<store, now, env, loadvars, watching, dirty, keys, idx, i, type, dtable,
                 skipped, result, error, errkey, attempts, failed, lastexc, muts>>

\* loads is called with the text that dumps returned (empty=False): the table
\* is iterated in an order of the interpreter's choosing
Reload ==
  /\ rpc = "done"
  /\ lpc = "done"
  /\ rpc' = "reloaded"
  /\ lpc' = "start"
  /\ LET parsed == LiteralEval(Repr(result))
     IN IF parsed.wf
          THEN \E o \in Orderings(DOMAIN parsed.dict) :
                 s' = [wf |-> TRUE,
                       table |-> [j \in 1 .. Len(o) |->
                                    Item(o[j], parsed.dict[o[j]].type,
                                         parsed.dict[o[j]].expireat,
                                         parsed.dict[o[j]].value)]]
          ELSE s' = NoInput
  /\ empty' = FALSE
  /\ ekeys' = <<>> /\ pos' = 0 /\ counter' = 0 /\ p' = <<>> /\ lerror' = "none"
  /\ batch' = 0 /\ flushed' = <<>> /\ enqd' = 0 /\ execd' = 0 /\ sent' = <<>>
  /\ before' = store
  /\ UNCHANGED <<store, now, env, watching, dirty, pretty, keys, idx, i, type, dtable,
                 skipped, result, error, errkey, attempts, failed, lastexc, muts>>

\* Time passes; no other client writes.
ClockOnly == [cmds |-> {}, clock |-> TRUE, count |-> FALSE, hot |-> {}]

\* The values of the five kinds, with and without an expiry.
RoundTripPayloads ==
  {<<"string", "a", None>>, <<"string", "b", FarTime>>, <<"list", <<"a", "b", "b">>, FarTime>>,
   <<"set", <<"b", "a">>, None>>, <<"zset", <<<<"b", 2>>, <<"a", 1>>>>, FarTime>>,
   <<"zset", <<<<"a", 1>>, <<"b", Inf>>>>, None>>,
   <<"hash", [f \in {"a", "b"} |-> "a"], None>>}

RoundTripTables ==
  UNION {{[j \in 1 .. Cardinality(ks) |-> Item(o[j], pl[j][1], pl[j][3], pl[j][2])] :
            o \in Orderings(ks), pl \in [1 .. Cardinality(ks) -> RoundTripPayloads]} :
         ks \in SUBSET Keys}

InitRoundTrip ==
  /\ lpc = "start" /\ ekeys = <<>> /\ pos = 0 /\ counter = 0 /\ p = <<>>
  /\ lerror = "none" /\ batch = 0 /\ flushed = <<>> /\ enqd = 0 /\ execd = 0 /\ sent = <<>>
  /\ now = StartTime /\ env = ClockOnly
  /\ DumpIdle
  /\ s \in {[wf |-> TRUE, table |-> t] : t \in RoundTripTables}
  /\ store \in [Keys -> {NoKey, [type |-> "list", expireat |-> FarTime + 1, value |-> <<"b">>]}]
  /\ empty = FALSE
  /\ before = store

NextRoundTrip ==
  \/ LoadBegin \/ Parse \/ LoadBatch \/ Finish
  \/ StartDump \/ ListKeys \/ TypeQuery \/ Watch \/ Execute
  \/ Reload \/ Tick

SpecRoundTrip == InitRoundTrip /\ [][NextRoundTrip]_vars

(***************************************************************************)
(* Properties of the dump.                                                 *)
(***************************************************************************)
Range(q) == {q[j] : j \in 1 .. Len(q)}

\* The dump takes a step (the other steps are the other clients' and the clock's).
ReaderMoves == <<rpc, idx, i>>' # <<rpc, idx, i>>

\* The step with which _reader is through with the current key.
KeyEnds == rpc \in {"type", "execute"} /\ (idx' # idx \/ rpc' \in {"done", "error"})

\* v is the dumped form of the value stored under a key of this kind.
SameValue(kind, v, stored) ==
  CASE kind \in {"string", "list", "hash"} -> v = stored
    [] kind = "set" -> Len(v) = Cardinality(stored) /\ Range(v) = stored
    [] kind = "zset" ->
         /\ Len(v) = Cardinality(DOMAIN stored)
         /\ Range(v) = {<<m, stored[m]>> : m \in DOMAIN stored}
    [] OTHER -> FALSE

\* C1: a record enters the table only with the kind, the expiry and the value
\* that its key has in the store at the instant of the EXEC that read them: the
\* three are never of different instants.
C1_SnapshotConsistency ==
  [][\A k \in DOMAIN dtable' \ DOMAIN dtable :
       /\ dtable'[k].type = store[k].type
       /\ dtable'[k].expireat = store[k].expireat
       /\ SameValue(store[k].type, dtable'[k].value, store[k].value)]_vars

\* A record with an expiry was dumped for a key other clients write to, and the
\* key has expired since.
C1_Witness ==
  \E k \in DOMAIN dtable :
    k \in env.hot /\ dtable[k].expireat # None /\ store[k].type = "none"

\* C2: _read_key is called at most 10 times for a key, and
\* ConcurrentModificationError, naming the key, is raised exactly when 10 calls
\* for it have ended in WatchError or KeyTypeChangedError.
C2_RetryBound ==
  /\ attempts <= 10
  /\ failed <= attempts
  /\ (error = "ConcurrentModificationError") <=> (failed = 10)
  /\ error = "ConcurrentModificationError" =>
       attempts = 10 /\ rpc = "error" /\ errkey = key

C2_Witness == error = "ConcurrentModificationError" /\ failed = 10 /\ errkey \in env.hot

C4_DeletedKeySkip ==
  /\ [](skipped \cap DOMAIN dtable = {})
  /\ [][(ReaderMoves /\ rpc = "type" /\ store[key].type = "none") =>
          /\ dtable' = dtable
          /\ key \in skipped'
          /\ error' = "none"
          /\ IF idx < Len(keys)
               THEN rpc' = "type" /\ idx' = idx + 1 /\ i' = 0
               ELSE rpc' = "done" /\ result' = dtable]_vars

\* The last key was found gone at a retry, and the dump returned.
C4_Witness == rpc = "done" /\ key \in skipped /\ failed >= 1 /\ DOMAIN result # {}

\* C5: an EXEC that finds the key of another kind than the kind query did yields
\* no record, and the read starts again at the kind query (while rounds are
\* left); a record that is yielded has the kind the key has at its EXEC and the
\* value read by the reader of that kind.
C5_KindChange ==
  [][(ReaderMoves /\ rpc = "execute") =>
       /\ store[key].type # type =>
            /\ dtable' = dtable
            /\ result' = result
            /\ IF i < 9
                 THEN rpc' = "type" /\ idx' = idx /\ i' = i + 1
                 ELSE error' = "ConcurrentModificationError"
       /\ key \in DOMAIN dtable' =>
            /\ store[key].type \in DOMAIN readers
            /\ dtable'[key].type = store[key].type
            /\ dtable'[key].value \in
                 HandleResponse(readers[store[key].type],
                                SendCommand(readers[store[key].type], store[key]),
                                pretty)]_vars

\* The last key was read after an attempt that found its kind changed.
C5_Witness ==
  rpc = "done" /\ key \in DOMAIN result /\ lastexc = "KeyTypeChangedError"

\* C6: a kind query answered with a kind that has no reader raises
\* UnknownTypeError at once: no WATCH, nothing added to the table; and after an
\* error the dump does nothing more (no further attempt, no later key).
C6_UnknownKindFatal ==
  [][/\ (ReaderMoves /\ rpc = "type"
          /\ store[key].type \notin {"none", "string", "list", "set", "zset", "hash"}) =>
          /\ rpc' = "error"
          /\ error' = "UnknownTypeError"
          /\ UNCHANGED <<watching, dtable, result, idx, failed>>
     /\ rpc = "error" =>
          UNCHANGED <<rpc, idx, i, attempts, watching, dtable, result, error>>]_vars

\* UnknownTypeError was raised with a key of the listing still unread.
C6_Witness == error = "UnknownTypeError" /\ idx < Len(keys) /\ attempts >= 1

\* C7: a table is returned only when every listed key was read (and is in it) or
\* was found gone (and is not); when a key's retries run out or its kind is
\* unknown no table is returned, and the keys after it were not read.
C7_FullOrAbort ==
  /\ result # NoResult =>
       /\ rpc = "done" /\ error = "none" /\ result = dtable
       /\ \A k \in Range(keys) : (k \in DOMAIN result) # (k \in skipped)
  /\ rpc = "done" => result # NoResult
  /\ error # "none" =>
       /\ rpc = "error" /\ result = NoResult
       /\ DOMAIN dtable \cup skipped = {keys[j] : j \in 1 .. idx - 1}

\* A table was returned that holds one listed key and leaves out another.
C7_Witness == rpc = "done" /\ skipped # {} /\ DOMAIN result # {}


(***************************************************************************)
(* Properties of the load.                                                 *)
(***************************************************************************)
\* What the store holds under the key of a record once the record is written.
Stored(it) ==
  [type |-> it.type, expireat |-> it.expireat,
   value |-> CASE it.type = "set" -> Range(it.value)
               [] it.type = "zset" ->
                    [m \in {it.value[j][1] : j \in 1 .. Len(it.value)} |->
                       (CHOOSE pr \in Range(it.value) : pr[1] = m)[2]]
               [] OTHER -> it.value]

\* The number of commands of a record: the delete, one per element (one for a
\* string or a hash), one more if there is an expiry.
NumCmds(it) ==
  1 + (IF it.type \in {"list", "set", "zset"} THEN Len(it.value) ELSE 1)
    + (IF it.expireat # None THEN 1 ELSE 0)

RECURSIVE TotalCmds(_, _)
TotalCmds(lo, hi) ==
  IF lo > hi THEN 0
  ELSE IF lo = hi THEN NumCmds(table[lo])
  ELSE TotalCmds(lo, (lo + hi) \div 2) + TotalCmds((lo + hi) \div 2 + 1, hi)

\* What loads is to queue for one record: the delete, the writes of the record's
\* kind in the order of its value, the expireat if the record has an expiry.
RecordCmds(it) ==
  LET writes == IF it.type \in {"list", "set", "zset"}
                  THEN [j \in 1 .. Len(it.value) |->
                          [cmd |-> CASE it.type = "list" -> "rpush"
                                     [] it.type = "set" -> "sadd"
                                     [] it.type = "zset" -> "zadd",
                           key |-> it.key, val |-> it.value[j]]]
                  ELSE <<[cmd |-> IF it.type = "string" THEN "set" ELSE "hmset",
                          key |-> it.key, val |-> it.value]>>
      expiry == IF it.expireat # None
                  THEN <<[cmd |-> "expireat", key |-> it.key, val |-> it.expireat]>>
                  ELSE <<>>
  IN <<[cmd |-> "delete", key |-> it.key, val |-> "nil"]>> \o writes \o expiry

RECURSIVE TableCmds(_, _)
TableCmds(lo, hi) ==
  IF lo > hi THEN <<>>
  ELSE IF lo = hi THEN RecordCmds(table[lo])
  ELSE TableCmds(lo, (lo + hi) \div 2) \o TableCmds((lo + hi) \div 2 + 1, hi)

\* C8: every command queued is pending or was executed, never both and never
\* twice; a flush happens with each 10,000th record and with no other; and when
\* the load is through, the flushes were of 10,000 records each but for a last
\* one of the remainder (none for no remainder), every record was queued and
\* executed, and the store holds every record.
C8_BatchFlush ==
  /\ enqd = execd + Len(p)
  /\ lpc = "loop" =>
       /\ batch = pos % BatchSize
       /\ Len(flushed) = pos \div BatchSize
       /\ \A j \in 1 .. Len(flushed) : flushed[j] = BatchSize
  /\ lpc = "done" =>
       /\ pos = Len(table)
       /\ p = <<>> /\ batch = 0
       /\ Len(flushed) = (Len(table) + BatchSize - 1) \div BatchSize
       /\ \A j \in 1 .. Len(flushed) :
            flushed[j] = IF j < Len(flushed) THEN BatchSize
                         ELSE Len(table) - BatchSize * (Len(flushed) - 1)
       /\ enqd = TotalCmds(1, Len(table))
       /\ execd = enqd
       /\ \A j \in 1 .. Len(table) : store[table[j].key] = Stored(table[j])

\* 10,001 records were loaded: a flush of 10,000 and a last flush of one.
C8_Witness ==
  lpc = "done" /\ Len(table) = BatchSize + 1 /\ flushed = <<BatchSize, 1>>
    /\ store[BatchSize + 1].type = "string"

\* C9 as stated: no more than 10,000 commands are ever pending in the pipeline
\* (what a p.execute() sends was pending until then).
C9_Original == Len(p) <= BatchSize /\ Len(sent) <= BatchSize

\* C9, amended: the pipeline never carries the commands of more than 10,000
\* records: fewer than 10,000 are pending between two flushes, and no flush is
\* of more than 10,000.  Each record has at least one command in it.
C9_RecordBound ==
  /\ batch < BatchSize
  /\ Len(p) >= batch
  /\ \A j \in 1 .. Len(flushed) : flushed[j] <= BatchSize
  /\ flushed # <<>> => Len(sent) >= flushed[Len(flushed)]

\* A flush of 10,000 records sent more than 10,000 commands.
C9_Witness == flushed # <<>> /\ flushed[1] = BatchSize /\ Len(sent) > BatchSize

\* C10: what is queued for the records is, record after record, one delete of
\* the key, the writes of the record's kind in the order of its value, and an
\* expireat if and only if the record has an expiry: the pending commands are
\* those of the records since the last flush, the commands last sent those of
\* the records of that flush.  When the load is through each key of the table
\* holds its record's kind, value and expiry, and nothing of what it held before.
C10_WriteOrder ==
  /\ lpc \in {"loop", "done"} =>
       /\ p = TableCmds(pos - batch + 1, pos)
       /\ flushed # <<>> =>
            sent = TableCmds(pos - batch - flushed[Len(flushed)] + 1, pos - batch)
  /\ lpc = "done" =>
       \A j \in 1 .. Len(table) :
         LET k == table[j].key
         IN /\ store[k].type = table[j].type
            /\ store[k].expireat = table[j].expireat
            /\ store[k] = Stored(table[j])

\* Two records were loaded without emptying the database first, one of them a
\* sorted set with an expiry.
C10_Witness ==
  /\ lpc = "done" /\ ~empty /\ Len(table) = 2
  /\ \E j \in 1 .. 2 :
       /\ table[j].type = "zset"
       /\ store[table[j].key].expireat = FarTime
       /\ DOMAIN store[table[j].key].value = {"a", "b"}


\* The keys of the table; the keys the database holds.
TableKeys == {table[j].key : j \in 1 .. Len(table)}
Present(db) == {k \in DOMAIN db : db[k].type # "none"}

\* C12: with empty=True, every key the database held is deleted before loads
\* parses the text and before any record is written, and when the load is
\* through the database holds the keys of the table and no other.
C12_EmptyFirst ==
  /\ lpc \in {"start", "empty"} => enqd = 0 /\ pos = 0
  /\ (empty /\ lpc \notin {"start", "empty"} /\ execd = 0) => Present(store) = {}
  /\ (empty /\ lpc = "done") =>
       /\ Present(store) = TableKeys
       /\ \A k \in Present(before) \ TableKeys : store[k] = NoKey

\* A table was loaded with empty=True into a database that held another key.
C12_Witness ==
  /\ empty /\ lpc = "done" /\ TableKeys # {}
  /\ \E k \in Present(before) : k \notin TableKeys /\ store[k] = NoKey

\* The records that were flushed: the first so many of the table.
Flushed == pos - batch

\* C13: loads gets through the table only if every record is of one of the five
\* kinds.  At the first record of another kind UnknownTypeError is raised, and
\* then the store holds the records of the batches flushed before and nothing
\* else of the table: the keys of the records queued since the last flush, of
\* the record of unknown kind and of the records after it are as they were
\* before the first record was written, not even deleted.
C13_UnknownKindAborts ==
  /\ lpc \in {"loop", "done", "error"} =>
       \A j \in 1 .. pos : table[j].type \in {"string", "list", "set", "zset", "hash"}
  /\ lpc = "done" => pos = Len(table)
  /\ lerror = "UnknownTypeError" =>
       /\ lpc = "error"
       /\ pos < Len(table)
       /\ table[pos + 1].type \notin {"string", "list", "set", "zset", "hash"}
       /\ Flushed = BatchSize * Len(flushed)
       /\ execd = TotalCmds(1, Flushed)
       /\ \A j \in 1 .. Flushed : store[table[j].key] = Stored(table[j])
       /\ \A j \in Flushed + 1 .. Len(table) :
            store[table[j].key] = IF empty THEN NoKey ELSE before[table[j].key]

\* UnknownTypeError was raised after a flush of 10,000 records, with one record
\* more in the pipeline: the 10,000 are in the store, that one is not.
C13_Witness ==
  /\ lerror = "UnknownTypeError" /\ flushed = <<BatchSize>> /\ batch = 1
  /\ store[BatchSize].type = "string" /\ store[BatchSize + 1].type = "none"

\* C17 as stated: when the text is not a literal, loads raises the parse
\* failure with nothing queued and nothing sent, and the database is as it was
\* when loads was called, with empty=True as well.
C17_Original ==
  lerror = "ValueError" =>
    /\ lpc = "error" /\ ~s.wf
    /\ enqd = 0 /\ execd = 0
    /\ store = before

\* loads, called with empty=True and a text that is no literal, ended in the
\* parse failure with the database, which held keys, empty.
C17_Witness ==
  /\ lerror = "ValueError" /\ empty
  /\ Present(before) # {} /\ Present(store) = {}

\* C19: with empty=False loads lists no keys, every command it queues or
\* sends is for a key of the table, and every key that is not in the table
\* holds at every moment what it held when loads was called.
C19_OnlyTableKeys ==
  ~empty =>
    LET tk == TableKeys
    IN /\ ekeys = <<>> /\ lpc # "empty"
       /\ \A j \in 1 .. Len(p) : p[j].key \in tk
       /\ \A j \in 1 .. Len(sent) : sent[j].key \in tk
       /\ \A k \in DOMAIN store \ tk : store[k] = before[k]

\* A table was loaded with empty=False over a stale hash, and another key the
\* database held is as it was.
C19_Witness ==
  /\ ~empty /\ lpc = "done"
  /\ \E k \in Present(before) : k \notin TableKeys /\ store[k] = before[k]
  /\ \E j \in 1 .. Len(table) :
       before[table[j].key].type = "hash" /\ store[table[j].key].type = "list"

(***************************************************************************)
(* Properties of a load followed by a dump (and a load of the dump).       *)
(***************************************************************************)
\* The step of the dump that puts the record of the current key in the table.
YieldsRecord == rpc = "execute" /\ DOMAIN dtable' # DOMAIN dtable

\* C11: a key read at time T with a time to live t >= 0 is dumped with the
\* expiry T + t, a key without time to live with the expiry None; and once a
\* table is loaded, whenever that was, each of its keys has the expiry of its
\* record, that timestamp itself or none, which a later dump reads back.
C11_Expiration ==
  /\ [][YieldsRecord =>
          LET ttl == IF store[key].expireat = None THEN -1 ELSE store[key].expireat - now
          IN dtable'[key].expireat = IF ttl >= 0 THEN now + ttl ELSE None]_vars
  /\ [](lpc = "done" =>
          \A j \in 1 .. Len(table) : store[table[j].key].expireat = table[j].expireat)
  /\ [](rpc = "done" =>
          \A j \in 1 .. Len(table) : result[table[j].key].expireat = table[j].expireat)

\* A key loaded with an expiry was dumped, with that expiry, after time had passed.
C11_Witness ==
  /\ rpc = "done" /\ now = MaxTime
  /\ \E j \in 1 .. Len(table) :
       /\ table[j].expireat = FarTime
       /\ result[table[j].key].expireat = FarTime
       /\ Ttl(store[table[j].key], now) = FarTime - MaxTime

\* C14: a value of any of the five kinds that was loaded is dumped with its
\* kind and equal to what was loaded: a string, a list (the same elements in
\* the same order) and a hash (the same fields with the same values) as they
\* were, a set with the same members, a sorted set with the same (member,
\* score) pairs.
C14_KindFidelity ==
  rpc = "done" =>
    \A j \in 1 .. Len(table) :
      LET was == table[j]
          got == result[was.key]
      IN /\ got.type = was.type
         /\ IF was.type \in {"set", "zset"}
              THEN Len(got.value) = Len(was.value) /\ Range(got.value) = Range(was.value)
              ELSE got.value = was.value

\* A set and a sorted set were loaded and dumped, each coming back in another
\* order than it was given in.
C14_Witness ==
  /\ rpc = "done" /\ Len(table) = 2
  /\ \E j \in 1 .. 2 :
       /\ table[j].type = "set" /\ table[3 - j].type = "zset"
       /\ result[table[j].key].value # table[j].value
       /\ result[table[3 - j].key].value # table[3 - j].value

\* C15 as stated: the text dumps returns for a table, compact or pretty, is
\* one that ast.literal_eval takes, and it evaluates to that table.
C15_Original ==
  rpc = "done" =>
    /\ LiteralEval(Repr(result)).wf
    /\ LiteralEval(Repr(result)).dict = result

\* The text of a dump was given to loads, and loads ended in ValueError.
C15_Witness == rpc = "reloaded" /\ lpc = "error" /\ lerror = "ValueError"


(***************************************************************************)
(* Further properties of the dump.                                         *)
(***************************************************************************)
\* C16: the keys are listed once, before any key is read, and the listing is
\* of the keys present then, each once; only listed keys are read, so the
\* table's keys are listed keys and a key created after the listing is in no
\* table; and a record, once in the table, is not replaced by another.
C16_SingleEnumeration ==
  /\ [][keys' # keys =>
          /\ rpc = "keys" /\ keys = <<>> /\ attempts = 0 /\ DOMAIN dtable = {}
          /\ Range(keys') = {k \in DOMAIN store : store[k].type # "none"}]_vars
  /\ [](\A x, y \in 1 .. Len(keys) : keys[x] = keys[y] => x = y)
  /\ [](rpc \in {"type", "watch", "execute"} => idx \in 1 .. Len(keys))
  /\ [](DOMAIN dtable \subseteq Range(keys) /\ skipped \subseteq Range(keys))
  /\ [][\A k \in DOMAIN dtable : k \in DOMAIN dtable' /\ dtable'[k] = dtable[k]]_vars

\* The dump returned a table without a key that was created after the listing
\* and is in the store.
C16_Witness ==
  /\ rpc = "done" /\ DOMAIN result # {}
  /\ \E k \in DOMAIN store :
       store[k].type # "none" /\ k \notin Range(keys) /\ k \notin DOMAIN result

\* C18: no step of the dump (the listing, a kind query, a WATCH, an EXEC, with
\* whatever outcome) changes the kind, the value or the expiry of any key: a
\* step that changes the store is a step of another client or of the clock and
\* leaves the dump where it is, and the keys no other client writes to hold at
\* every moment what they held when the dump began.
C18_DumpReadsOnly ==
  /\ [][ReaderMoves => store' = store]_vars
  /\ [][store' # store =>
          UNCHANGED <<rpc, keys, idx, i, type, dtable, skipped, result, error, attempts>>]_vars
  /\ [](\A k \in Keys \ env.hot : store[k] = Fresh("string", "a"))

\* A dump got every key into its table, one of them after a failed attempt, and
\* the keys no other client writes to are as they were.
C18_Witness ==
  /\ rpc = "done" /\ DOMAIN result = Keys /\ failed >= 1
  /\ \A k \in Keys \ env.hot : store[k] = Fresh("string", "a")


\* The dump is over: the table is complete or an exception has left dumps.
Final == rpc \in {"done", "error"}

\* How the dump was through with the j-th listed key: its record yielded, the
\* key skipped as deleted, or the dump aborted at it or before it came to it.
Outcomes(j) ==
  {o \in {"yielded", "skipped", "abort"} :
     \/ o = "yielded" /\ keys[j] \in DOMAIN dtable
     \/ o = "skipped" /\ keys[j] \in skipped
     \/ o = "abort" /\ rpc = "error" /\ j >= idx}

\* C20: when every call to the server returns, whatever the other clients do
\* the dump reaches a final state, complete or aborted with UnknownTypeError or
\* ConcurrentModificationError, and stays in it; _read_key is never called more
\* than 10 times for a key; and in the final state each listed key has exactly
\* one outcome: yielded, skipped as deleted, or abort.
C20_Terminates ==
  /\ <>Final
  /\ [](attempts <= MaxAttempts /\ i < MaxAttempts)
  /\ [](Final => \A j \in 1 .. Len(keys) : Cardinality(Outcomes(j)) = 1)
  /\ [](rpc = "error" => error \in {"UnknownTypeError", "ConcurrentModificationError"})
  /\ [](rpc = "done" => error = "none" /\ result = dtable)
  /\ [][Final => ~ReaderMoves /\ UNCHANGED <<keys, dtable, skipped, result, error>>]_vars

\* A dump came to its end although the reads of its last key failed nine times
\* and the key was deleted before the tenth; the other key's record was yielded.
C20_Witness ==
  /\ rpc = "done" /\ attempts = MaxAttempts /\ failed = MaxAttempts - 1
  /\ skipped \cap env.hot # {}
  /\ DOMAIN result # {}

====
